---- MODULE Spec2Model ----
(***************************************************************************)
(* The validator network coordinator of validator/src/validator_network.rs *)
(* as a state machine: the ValidatorNetworkState behind the coordinator    *)
(* lock, the chain it queries, the pBFT and view-change aggregations it    *)
(* owns and the notifications it hands to the block producer.              *)
(*                                                                         *)
(* Every action is one critical section of the coordinator lock (a whole   *)
(* handler up to the point where it drops the lock).  A notification that  *)
(* a handler sends after dropping the lock is put in `pending` by that     *)
(* section and delivered by the separate step Notify, because other        *)
(* threads can run between the two.                                        *)
(***************************************************************************)
EXTENDS Integers, Sequences, FiniteSets, Bags, TLC

VARIABLES
    height,                 \* blockchain.height() / blockchain.block_number()
    agents,                 \* ValidatorNetworkState.agents
    potential_validators,   \* ValidatorNetworkState.potential_validators
    active_validators,      \* ValidatorNetworkState.active_validators
    view_changes,           \* ValidatorNetworkState.view_changes
    pbft_states,            \* ValidatorNetworkState.pbft_states
    validator_id,           \* ValidatorNetworkState.validator_id
    pending,                \* notifications computed, lock dropped, not yet notified
    emitted,                \* per event key: notifications decided since the last finality
    delivered,              \* event keys the notifier has delivered
    last,                   \* the last call of the coordinator's interface: operation, argument, result
    panicked,               \* an expect()/assert_eq!() failed
    connected,              \* the peers the network is connected to
    agent_state,            \* ValidatorAgent.state.validator_info of every agent created
    sent,                   \* the messages handed to the channels of peers
    lock_at_push,           \* the coordinator lock the last push into an aggregation was made under
    dropped,                \* the last remote level update that found no aggregation
    notified,               \* the last ViewChangeComplete the view-change listener notified
    held                    \* the aggregation a push has looked up and not yet pushed into

vars == <<height, agents, potential_validators, active_validators, view_changes,
          pbft_states, validator_id, pending, emitted, delivered, last, panicked,
          connected, agent_state, sent, lock_at_push, dropped, notified, held>>

----------------------------------------------------------------------------
(* Bounds of the model *)

\* the chain is followed up to this height
MaxHeight == 32
\* proposals buffered before the macro position
MaxBuffered == 3
\* notifications of one kind decided for one block hash between two finalities
MaxEmit == 2
\* handlers that have dropped the lock and not yet notified their event
MaxInFlight == 2
\* agents created, one for every connection of a validator peer
MaxAgents == 3

----------------------------------------------------------------------------
(* Option<T> as a set with at most one element *)

None == {}
Some(x) == {x}
IsSome(o) == o # {}
Unwrap(o) == CHOOSE x \in o : TRUE

Range(s) == {s[i] : i \in 1..Len(s)}

----------------------------------------------------------------------------
(* The chain and the policy, as far as the coordinator queries them *)

\* distance of two macro blocks (primitives::policy)
MacroInterval == 32

\* is_macro_block_at that is one block early
is_macro_block_at_early(n) == (n + 1) % MacroInterval = 0

\* is_macro_block_at that takes every block for a macro block
is_macro_block_at_always(n) == TRUE

is_macro_block_at(n) == n % MacroInterval = 0

\* the validators of the current epoch, by index
Validators == 0..3

\* two thirds of the validators, rounded up (policy::TWO_THIRD_SLOTS)
TwoThird == (2 * Cardinality(Validators) + 2) \div 3

\* Blockchain::get_current_validator_by_idx: the key of the validator group
get_current_validator_by_idx(idx) ==
    IF idx \in Validators THEN Some(<<"pk", idx>>) ELSE None

\* Blockchain::get_block_producer_at: the slot owner at (block, view); known
\* only up to the block after the head
get_block_producer_at(block_number, view_number) ==
    IF block_number <= height + 1
    THEN Some(<<"pk", view_number % Cardinality(Validators)>>)
    ELSE None

\* Blockchain::verify_block_header: the header's own validity
verify_block_header(header) == header.wellformed

\* header.hash::<Blake2bHash>(): one hash per header content
BlockHash(header) == <<"blake2b", header.block_number, header.view_number, header.seed>>

----------------------------------------------------------------------------
(* Inputs: signed proposals *)

SignedProposal(view, seed, signer, wellformed, signed) ==
    [message |-> [header |-> [block_number |-> MacroInterval, view_number |-> view,
                              seed |-> seed, wellformed |-> wellformed]],
     signer_idx |-> signer, signature_ok |-> signed]

\* view 0 by its producer
PropA == SignedProposal(0, "a", 0, TRUE, TRUE)
\* view 1 by its producer, and a second, different block of the same producer
PropB == SignedProposal(1, "b", 1, TRUE, TRUE)
PropC == SignedProposal(1, "c", 1, TRUE, TRUE)
\* view 2, signed by a validator that does not own the slot
PropD == SignedProposal(2, "d", 0, TRUE, TRUE)

Proposals == {PropA, PropB, PropC, PropD}

Hashes == {BlockHash(p.message.header) : p \in Proposals}

\* the indices this node has as a validator
NodeIds == {1, 2}

\* the view changes a validator can ask for: (block_number, new_view_number)
ViewChanges == {[block_number |-> MacroInterval, new_view_number |-> v] : v \in {1, 2}}

SignedViewChanges == {[message |-> vc, signer_idx |-> i] : vc \in ViewChanges, i \in NodeIds}

\* the signers whose aggregate a remote level update carries
SignerSets == {{0, 2}, {3}}

\* the peers of the network; the peers that advertise the validator service flag
Peers == {1, 2, 3}

is_validator(peer) == peer \in {1, 2}

\* the validator infos that arrive: a peer's address and its BLS public key
ValidatorInfos ==
    {[peer_id |-> peer, public_key |-> <<"pk", idx>>] : peer \in {1, 2}, idx \in {0, 2}}

\* self.info, the validator info of this node
OwnInfo == [peer_id |-> 0, public_key |-> <<"pk", 1>>]

\* Message::ValidatorInfo(infos) and Message::PbftProposal(proposal)
ValidatorInfoMessage(infos) ==
    [type |-> "ValidatorInfo", infos |-> infos, proposal |-> {}]

PbftProposalMessage(signed_proposal) ==
    [type |-> "PbftProposal", infos |-> {}, proposal |-> {signed_proposal}]

----------------------------------------------------------------------------
(* ValidatorNetworkEvent: its kind, its subject (a block hash or a view    *)
(* change) and the signers of the proofs it carries                         *)

Subject(view_change) ==
    <<"view_change", view_change.block_number, view_change.new_view_number, "">>

EventKeys == ({"PbftProposal", "PbftPrepareComplete", "PbftComplete"} \X Hashes)
                \cup ({"ViewChangeComplete"} \X {Subject(vc) : vc \in ViewChanges})

Key(event) == <<event.type, event.subject>>

PbftProposalEvent(hash) ==
    [type |-> "PbftProposal", subject |-> hash, prepare |-> {}, commit |-> {}]
PbftPrepareCompleteEvent(hash) ==
    [type |-> "PbftPrepareComplete", subject |-> hash, prepare |-> {}, commit |-> {}]
PbftCompleteEvent(hash, prepare, commit) ==
    [type |-> "PbftComplete", subject |-> hash, prepare |-> prepare, commit |-> commit]
ViewChangeCompleteEvent(view_change, signers) ==
    [type |-> "ViewChangeComplete", subject |-> Subject(view_change),
     prepare |-> signers, commit |-> {}]

\* notifier.notify(event) after the lock is dropped: the event waits in `pending`
Emit(events) ==
    /\ pending' = pending (+) SetToBag(events)
    /\ emitted' = [k \in EventKeys |->
                     IF \E e \in events : Key(e) = k THEN emitted[k] + 1 ELSE emitted[k]]

\* the bounds on the notifications: of one kind for one subject, and in flight
CanEmit(event) == emitted[Key(event)] < MaxEmit /\ BagCardinality(pending) < MaxInFlight

----------------------------------------------------------------------------
(* signature_aggregation::pbft::PbftAggregation and                        *)
(* signature_aggregation::view_change::ViewChangeAggregation: the signers  *)
(* aggregated so far and the Complete notifications the transport still    *)
(* has to hand to the listeners.  A push that improves the aggregate to or  *)
(* beyond two thirds makes one notification due.                            *)

PbftAggregationNew(node_id, peers) ==
    [node_id |-> node_id, peers |-> peers,
     prepare |-> {}, commit |-> {},
     prepare_due |-> 0, commit_due |-> 0, prepare_notified |-> FALSE]

PrepareFinal(signers) == Cardinality(signers) >= TwoThird

\* the commit evaluator counts only signers that also signed prepare
CommitFinal(prepare, commit) == Cardinality(commit \cap prepare) >= TwoThird

push_prepare_agg(agg, signers) ==
    LET new == agg.prepare \cup signers IN
    [agg EXCEPT !.prepare = new,
                !.prepare_due = IF new # agg.prepare /\ PrepareFinal(new) THEN @ + 1 ELSE @]

\* push_commit_agg that puts the signers into the prepare aggregate as well
push_commit_agg_both(agg, signers) ==
    LET new == agg.commit \cup signers IN
    [agg EXCEPT !.prepare = @ \cup signers,
                !.commit = new,
                !.commit_due = IF new # agg.commit /\ CommitFinal(agg.prepare, new)
                               THEN @ + 1 ELSE @]

push_commit_agg(agg, signers) ==
    LET new == agg.commit \cup signers IN
    [agg EXCEPT !.commit = new,
                !.commit_due = IF new # agg.commit /\ CommitFinal(agg.prepare, new)
                               THEN @ + 1 ELSE @]

ViewChangeAggregationNew(view_change, node_id, peers) ==
    [tag |-> view_change, node_id |-> node_id, peers |-> peers, signers |-> {}, due |-> 0]

push_view_change_agg(agg, signers) ==
    LET new == agg.signers \cup signers IN
    [agg EXCEPT !.signers = new,
                !.due = IF new # agg.signers /\ PrepareFinal(new) THEN @ + 1 ELSE @]

----------------------------------------------------------------------------
(* PbftState *)

PbftStateNew(block_hash, proposal, node_id, peers) ==
    [proposal |-> proposal, block_hash |-> block_hash,
     aggregation |-> PbftAggregationNew(node_id, peers),
     prepare_proof |-> None]

\* check_verified that does not compare the signer's key with the slot owner's
check_verified_any_signer(proposal) ==
    LET header == proposal.message.header
        slot == get_block_producer_at(header.block_number, header.view_number)
        validator == get_current_validator_by_idx(proposal.signer_idx)
    IN  IF ~IsSome(slot) THEN "panic"
        ELSE IF ~IsSome(validator) THEN "false"
        ELSE IF ~verify_block_header(header) THEN "false"
        ELSE IF ~proposal.signature_ok THEN "false"
        ELSE "true"

\* check_verified that does not verify the proposal's signature
check_verified_unsigned(proposal) ==
    LET header == proposal.message.header
        slot == get_block_producer_at(header.block_number, header.view_number)
        validator == get_current_validator_by_idx(proposal.signer_idx)
    IN  IF ~IsSome(slot) THEN "panic"
        ELSE IF ~IsSome(validator) THEN "false"
        ELSE IF Unwrap(validator) # Unwrap(slot) THEN "false"
        ELSE IF ~verify_block_header(header) THEN "false"
        ELSE "true"

\* "true", "false", or "panic" when the chain cannot name the producer
check_verified(proposal) ==
    LET header == proposal.message.header
        slot == get_block_producer_at(header.block_number, header.view_number)
        validator == get_current_validator_by_idx(proposal.signer_idx)
    IN  IF ~IsSome(slot) THEN "panic"
        ELSE IF ~IsSome(validator) THEN "false"
        ELSE IF Unwrap(validator) # Unwrap(slot) THEN "false"
        ELSE IF ~verify_block_header(header) THEN "false"
        ELSE IF ~proposal.signature_ok THEN "false"
        ELSE "true"

ViewOf(pbft) == pbft.proposal.message.header.view_number

\* get_pbft_state that skips the first instance
get_pbft_state_after_head(states, hash) ==
    IF \E i \in 2..Len(states) : states[i].block_hash = hash
    THEN CHOOSE i \in 2..Len(states) :
            /\ states[i].block_hash = hash
            /\ \A j \in 2..(i - 1) : states[j].block_hash # hash
    ELSE 0

\* ValidatorNetworkState::get_pbft_state: the index of the first instance with
\* this hash, 0 when there is none
get_pbft_state(states, hash) ==
    IF \E i \in 1..Len(states) : states[i].block_hash = hash
    THEN CHOOSE i \in 1..Len(states) :
            /\ states[i].block_hash = hash
            /\ \A j \in 1..(i - 1) : states[j].block_hash # hash
    ELSE 0

\* Vec::dedup_by_key on (block_number, view_number): of each run of consecutive
\* instances with the same key the first stays
DedupKey(pbft) ==
    <<pbft.proposal.message.header.block_number, pbft.proposal.message.header.view_number>>

RECURSIVE dedup_by_key(_)
dedup_by_key(states) ==
    IF Len(states) <= 1 THEN states
    ELSE LET rest == dedup_by_key(Tail(states)) IN
         IF DedupKey(Head(states)) = DedupKey(Head(Tail(states)))
         THEN <<Head(states)>> \o Tail(rest)
         ELSE <<Head(states)>> \o rest

\* max_by_key turned into min_by_key
RECURSIVE min_by_key(_)
min_by_key(states) ==
    IF Len(states) = 1 THEN states[1]
    ELSE LET best == min_by_key(SubSeq(states, 1, Len(states) - 1))
             x == states[Len(states)]
         IN  IF ViewOf(x) < ViewOf(best) THEN x ELSE best

\* Iterator::max_by_key on view_number: of several maximal elements the last
RECURSIVE max_by_key(_)
max_by_key(states) ==
    IF Len(states) = 1 THEN states[1]
    ELSE LET best == max_by_key(SubSeq(states, 1, Len(states) - 1))
             x == states[Len(states)]
         IN  IF ViewOf(x) >= ViewOf(best) THEN x ELSE best

----------------------------------------------------------------------------
(* Initial state: ValidatorNetwork::new, ValidatorNetworkState::default()  *)

NoMap == [x \in {} |-> x]

HashesOf(states) == [i \in 1..Len(states) |-> states[i].block_hash]

\* the record of a call: what was called with what, its result, and the block
\* hashes and view changes the coordinator held when it was called
Call(op, arg, ret) ==
    [op |-> op, arg |-> arg, ret |-> ret,
     hashes_before |-> HashesOf(pbft_states),
     view_changes_before |-> DOMAIN view_changes]

Init ==
    /\ height = MacroInterval - 2
    /\ agents = NoMap
    /\ potential_validators = NoMap
    /\ active_validators = NoMap
    /\ view_changes = NoMap
    /\ pbft_states = <<>>
    /\ validator_id = None
    /\ pending = EmptyBag
    /\ emitted = [k \in EventKeys |-> 0]
    /\ delivered = {}
    /\ last = [op |-> "new", arg |-> <<>>, ret |-> "Ok",
               hashes_before |-> <<>>, view_changes_before |-> {}]
    /\ panicked = FALSE
    /\ connected = {}
    /\ agent_state = NoMap
    /\ sent = {}
    /\ lock_at_push = "none"
    /\ dropped = None
    /\ notified = None
    /\ held = None

\* an expect() or assert_eq!() fails: the state is as it was before the call
Panic(op, arg) ==
    /\ panicked' = TRUE
    /\ last' = Call(op, arg, "panic")
    /\ UNCHANGED <<height, agents, potential_validators, active_validators, view_changes,
                   pbft_states, validator_id, pending, emitted, delivered,
                   connected, agent_state, sent, lock_at_push, dropped, notified, held>>

\* the call returns `ret` and leaves the coordinator as it was
Return(op, arg, ret) ==
    /\ last' = Call(op, arg, ret)
    /\ UNCHANGED <<height, agents, potential_validators, active_validators, view_changes,
                   pbft_states, validator_id, pending, emitted, delivered, panicked,
                   connected, agent_state, sent, lock_at_push, dropped, notified, held>>

----------------------------------------------------------------------------
(* The peer table: on_peer_joined, on_peer_left, on_validator_info *)

MapPut(map, key, value) ==
    [k \in DOMAIN map \cup {key} |-> IF k = key THEN value ELSE map[k]]

MapRemove(map, key) == [k \in DOMAIN map \ {key} |-> map[k]]

\* ValidatorAgent::new: the agent of one connection of a peer
ValidatorAgentNew(peer, nr) == [peer_id |-> peer, nr |-> nr]

\* the validator infos of the agents in the table and this node's own
known_infos(table, infos) ==
    UNION {infos[table[peer]] : peer \in DOMAIN table} \cup {OwnInfo}

\* on_peer_joined for every peer, whatever its service flags
OnPeerJoinedAnyPeer(peer) ==
    /\ ~panicked
    /\ peer \notin connected
    /\ connected' = connected \cup {peer}
    /\ Cardinality(DOMAIN agent_state) < MaxAgents
    /\ LET agent == ValidatorAgentNew(peer, Cardinality(DOMAIN agent_state)) IN
       /\ agents' = MapPut(agents, peer, agent)
       /\ agent_state' = MapPut(agent_state, agent, None)
       /\ sent' = sent \cup {<<peer, ValidatorInfoMessage(known_infos(agents', agent_state'))>>}
    /\ UNCHANGED <<height, potential_validators, active_validators, view_changes,
                   pbft_states, validator_id, pending, emitted, delivered, last,
                   panicked, lock_at_push, dropped, notified, held>>

\* the network has connected to a peer and calls on_peer_joined
OnPeerJoined(peer) ==
    /\ ~panicked
    /\ peer \notin connected
    /\ connected' = connected \cup {peer}
    /\ IF is_validator(peer)
       THEN /\ Cardinality(DOMAIN agent_state) < MaxAgents
            /\ LET agent == ValidatorAgentNew(peer, Cardinality(DOMAIN agent_state)) IN
               /\ agents' = MapPut(agents, peer, agent)
               /\ agent_state' = MapPut(agent_state, agent, None)
               /\ sent' = sent \cup
                    {<<peer, ValidatorInfoMessage(known_infos(agents', agent_state'))>>}
       ELSE UNCHANGED <<agents, agent_state, sent>>
    /\ UNCHANGED <<height, potential_validators, active_validators, view_changes,
                   pbft_states, validator_id, pending, emitted, delivered, last,
                   panicked, lock_at_push, dropped, notified, held>>

\* the network has lost a peer and calls on_peer_left
OnPeerLeft(peer) ==
    /\ ~panicked
    /\ peer \in connected
    /\ connected' = connected \ {peer}
    /\ agents' = MapRemove(agents, peer)
    /\ UNCHANGED <<height, potential_validators, active_validators, view_changes,
                   pbft_states, validator_id, pending, emitted, delivered, last,
                   panicked, agent_state, sent, lock_at_push, dropped, notified, held>>

\* on_validator_info that also puts the agent of an active validator's key
\* into active_validators
OnValidatorInfoActivating(info) ==
    /\ ~panicked
    /\ IF info.peer_id \in DOMAIN agents
       THEN LET agent == agents[info.peer_id] IN
            IF \E current_info \in agent_state[agent] :
                  current_info.public_key = info.public_key
            THEN UNCHANGED <<potential_validators, agent_state, active_validators>>
            ELSE /\ potential_validators' = MapPut(potential_validators, info.public_key, agent)
                 /\ agent_state' = [agent_state EXCEPT ![agent] = Some(info)]
                 /\ active_validators' =
                        IF \E id \in Validators : <<"pk", id>> = info.public_key
                        THEN MapPut(active_validators, info.public_key[2], agent)
                        ELSE active_validators
       ELSE UNCHANGED <<potential_validators, agent_state, active_validators>>
    /\ UNCHANGED <<height, agents, view_changes,
                   pbft_states, validator_id, pending, emitted, delivered, last,
                   panicked, connected, sent, lock_at_push, dropped, notified, held>>

\* on_validator_info that keeps the agent a key already has
OnValidatorInfoKeepingHolder(info) ==
    /\ ~panicked
    /\ IF info.peer_id \in DOMAIN agents
       THEN LET agent == agents[info.peer_id] IN
            IF \E current_info \in agent_state[agent] :
                  current_info.public_key = info.public_key
            THEN UNCHANGED <<potential_validators, agent_state>>
            ELSE /\ potential_validators' =
                        IF info.public_key \in DOMAIN potential_validators
                        THEN potential_validators
                        ELSE MapPut(potential_validators, info.public_key, agent)
                 /\ agent_state' = [agent_state EXCEPT ![agent] = Some(info)]
       ELSE UNCHANGED <<potential_validators, agent_state>>
    /\ UNCHANGED <<height, agents, active_validators, view_changes,
                   pbft_states, validator_id, pending, emitted, delivered, last,
                   panicked, connected, sent, lock_at_push, dropped, notified, held>>

OnValidatorInfo(info) ==
    /\ ~panicked
    /\ IF info.peer_id \in DOMAIN agents
       THEN LET agent == agents[info.peer_id] IN
            IF \E current_info \in agent_state[agent] :
                  current_info.public_key = info.public_key
            THEN UNCHANGED <<potential_validators, agent_state>>
            ELSE /\ potential_validators' = MapPut(potential_validators, info.public_key, agent)
                 /\ agent_state' = [agent_state EXCEPT ![agent] = Some(info)]
       ELSE UNCHANGED <<potential_validators, agent_state>>
    /\ UNCHANGED <<height, agents, active_validators, view_changes,
                   pbft_states, validator_id, pending, emitted, delivered, last,
                   panicked, connected, sent, lock_at_push, dropped, notified, held>>

\* broadcast_all: the message goes to the peer of every agent in
\* potential_validators
broadcast_all(msg) ==
    {<<potential_validators[key].peer_id, msg>> : key \in DOMAIN potential_validators}

----------------------------------------------------------------------------
(* The chain grows by one block (Blockchain::push, outside the coordinator) *)

ExtendChain ==
    /\ ~panicked
    /\ height < MaxHeight
    /\ height' = height + 1
    /\ UNCHANGED <<agents, potential_validators, active_validators, view_changes,
                   pbft_states, validator_id, pending, emitted, delivered, last, panicked,
                   connected, agent_state, sent, lock_at_push, dropped, notified, held>>

----------------------------------------------------------------------------
(* ValidatorNetwork::on_finality *)

\* rebuild_active that looks up the key of the next validator index
rebuild_active_shifted(potential) ==
    [id \in {i \in Validators : <<"pk", i + 1>> \in DOMAIN potential} |->
        potential[<<"pk", id + 1>>]]

\* the mapping from validator index to agent, for the keys that are known
rebuild_active(potential) ==
    [id \in {i \in Validators : <<"pk", i>> \in DOMAIN potential} |-> potential[<<"pk", id>>]]

\* a push that has cloned the Arc of an aggregation keeps the aggregation
\* alive when its instance leaves pbft_states: `aggregation` is None while the
\* instance is in the set and the aggregation as the instance left it
\* afterwards; `before_finality` says that on_finality ran since the lookup
detach(h, before, after, finality) ==
    {[x EXCEPT
        !.aggregation =
            IF x.aggregation = None /\ get_pbft_state(after, x.key) = 0
            THEN Some(before[get_pbft_state(before, x.key)].aggregation)
            ELSE @,
        !.before_finality = @ \/ finality] : x \in h}

\* on_finality without `state.pbft_states.clear()`
OnFinalityKeepingStates(id) ==
    /\ ~panicked
    /\ view_changes' = NoMap
    /\ validator_id' = id
    /\ active_validators' = rebuild_active(potential_validators)
    /\ emitted' = [k \in EventKeys |-> 0]
    /\ last' = Call("on_finality", id, "Ok")
    /\ UNCHANGED <<height, agents, potential_validators, pbft_states, pending, delivered,
                   panicked, connected, agent_state, sent, lock_at_push, dropped,
                   notified, held>>

OnFinality(id) ==
    /\ ~panicked
    /\ view_changes' = NoMap
    /\ pbft_states' = <<>>
    /\ validator_id' = id
    /\ active_validators' = rebuild_active(potential_validators)
    /\ emitted' = [k \in EventKeys |-> 0]
    /\ last' = Call("on_finality", id, "Ok")
    /\ held' = detach(held, pbft_states, <<>>, TRUE)
    /\ UNCHANGED <<height, agents, potential_validators, pending, delivered, panicked,
                   connected, agent_state, sent, lock_at_push, dropped, notified>>

----------------------------------------------------------------------------
(* ValidatorNetwork::on_blockchain_extended *)

\* Verified that fails the instance that is alone in the set
VerifiedAmongOthers(pbft) ==
    check_verified(pbft.proposal) = "true" /\ Len(pbft_states) > 1

\* Verified that passes every instance
VerifiedAlways(pbft) == TRUE

\* the closure of retain: the instance passes check_verified
Verified(pbft) == check_verified(pbft.proposal) = "true"

OnBlockchainExtended ==
    /\ ~panicked
    /\ IF ~is_macro_block_at(height + 1)
       THEN Return("on_blockchain_extended", <<>>, "Ok")
       ELSE IF \E i \in 1..Len(pbft_states) : check_verified(pbft_states[i].proposal) = "panic"
       THEN Panic("on_blockchain_extended", <<>>)
       ELSE LET retained == SelectSeq(pbft_states, Verified) IN
            IF retained = <<>>
            THEN /\ pbft_states' = <<>>
                 /\ last' = Call("on_blockchain_extended", <<>>, "Ok")
                 /\ held' = detach(held, pbft_states, <<>>, FALSE)
                 /\ UNCHANGED <<height, agents, potential_validators, active_validators,
                                view_changes, validator_id, pending, emitted, delivered,
                                panicked, connected, agent_state, sent, lock_at_push, dropped,
                                notified>>
            ELSE LET best_pbft == max_by_key(dedup_by_key(retained))
                     event == PbftProposalEvent(BlockHash(best_pbft.proposal.message.header))
                 IN  /\ CanEmit(event)
                     /\ pbft_states' = <<best_pbft>>
                     /\ Emit({event})
                     /\ last' = Call("on_blockchain_extended", <<>>, "Ok")
                     /\ held' = detach(held, pbft_states, <<best_pbft>>, FALSE)
                     /\ UNCHANGED <<height, agents, potential_validators, active_validators,
                                    view_changes, validator_id, delivered, panicked,
                                    connected, agent_state, sent, lock_at_push, dropped,
                                    notified>>

----------------------------------------------------------------------------
(* ValidatorNetwork::on_pbft_proposal (and start_pbft, which only calls it) *)

\* find_other with `<` for `<=`: an instance of the same view is not found
find_other_strict(states, view_number) ==
    IF \E i \in 1..Len(states) : view_number < ViewOf(states[i])
    THEN CHOOSE i \in 1..Len(states) :
            /\ view_number < ViewOf(states[i])
            /\ \A j \in 1..(i - 1) : ~(view_number < ViewOf(states[j]))
    ELSE 0

\* find_other that looks at the first instance only
find_other_head(states, view_number) ==
    IF states # <<>> /\ view_number <= ViewOf(states[1]) THEN 1 ELSE 0

\* Iterator::find: the first instance whose view is not below the new one's
find_other(states, view_number) ==
    IF \E i \in 1..Len(states) : view_number <= ViewOf(states[i])
    THEN CHOOSE i \in 1..Len(states) :
            /\ view_number <= ViewOf(states[i])
            /\ \A j \in 1..(i - 1) : ~(view_number <= ViewOf(states[j]))
    ELSE 0

OnPbftProposal(signed_proposal) ==
    LET header == signed_proposal.message.header
        block_hash == BlockHash(header)
        op == "on_pbft_proposal"
        buffered == ~is_macro_block_at(height + 1)
    IN
    /\ ~panicked
    /\ IF get_pbft_state(pbft_states, block_hash) # 0
       THEN Return(op, signed_proposal, "Ok")
       ELSE IF ~IsSome(validator_id)
       THEN Panic(op, signed_proposal)
       ELSE LET pbft == PbftStateNew(block_hash, signed_proposal, Unwrap(validator_id),
                                     active_validators)
                other == find_other(pbft_states, header.view_number)
            IN
            IF ~buffered /\ check_verified(pbft.proposal) = "panic"
            THEN Panic(op, signed_proposal)
            ELSE IF ~buffered /\ check_verified(pbft.proposal) = "false"
            THEN Return(op, signed_proposal, "InvalidProposal")
            ELSE IF ~buffered /\ other # 0
            THEN IF header.view_number = ViewOf(pbft_states[other])
                 THEN Return(op, signed_proposal, "ProposalCollision")
                 ELSE Return(op, signed_proposal, "Ok")
            ELSE IF ~buffered
            THEN /\ CanEmit(PbftProposalEvent(block_hash))
                 /\ pbft_states' = <<pbft>>
                 /\ Emit({PbftProposalEvent(block_hash)})
                 /\ sent' = sent \cup broadcast_all(PbftProposalMessage(signed_proposal))
                 /\ last' = Call(op, signed_proposal, "Ok")
                 /\ held' = detach(held, pbft_states, <<pbft>>, FALSE)
                 /\ UNCHANGED <<height, agents, potential_validators, active_validators,
                                view_changes, validator_id, delivered, panicked,
                                connected, agent_state, lock_at_push, dropped,
                                notified>>
            ELSE /\ Len(pbft_states) < MaxBuffered
                 /\ pbft_states' = Append(pbft_states, pbft)
                 /\ sent' = sent \cup broadcast_all(PbftProposalMessage(signed_proposal))
                 /\ last' = Call(op, signed_proposal, "Ok")
                 /\ UNCHANGED <<height, agents, potential_validators, active_validators,
                                view_changes, validator_id, pending, emitted, delivered,
                                panicked, connected, agent_state, lock_at_push, dropped,
                                notified, held>>

----------------------------------------------------------------------------
(* notifier.notify(event), after the handler has dropped the lock *)

Notify(event) ==
    /\ ~panicked
    /\ BagIn(event, pending)
    /\ pending' = pending (-) SetToBag({event})
    /\ delivered' = delivered \cup {Key(event)}
    /\ UNCHANGED <<height, agents, potential_validators, active_validators, view_changes,
                   pbft_states, validator_id, emitted, last, panicked,
                   connected, agent_state, sent, lock_at_push, dropped, notified, held>>

----------------------------------------------------------------------------
(* ValidatorNetwork::push_prepare, push_commit and the remote level updates *)

\* a remote level update finds no aggregation for its tag: the handler returns
\* and the coordinator is as it was
Drop(kind, tag) ==
    /\ dropped' = Some(<<kind, tag>>)
    /\ UNCHANGED <<height, agents, potential_validators, active_validators, view_changes,
                   pbft_states, validator_id, pending, emitted, delivered, last, panicked,
                   connected, agent_state, sent, lock_at_push, notified, held>>

\* push_prepare without drop(state) before the push
PushPrepareUnderLock(block_hash, signer) ==
    LET i == get_pbft_state(pbft_states, block_hash)
        signed_prepare == [block_hash |-> block_hash, signer_idx |-> signer]
    IN
    /\ ~panicked
    /\ IF i = 0
       THEN Return("push_prepare", signed_prepare, "UnknownProposal")
       ELSE /\ pbft_states' = [pbft_states EXCEPT
                    ![i].aggregation = push_prepare_agg(@, {signer})]
            /\ lock_at_push' = "read"
            /\ last' = Call("push_prepare", signed_prepare, "Ok")
            /\ UNCHANGED <<height, agents, potential_validators, active_validators,
                           view_changes, validator_id, pending, emitted, delivered, panicked,
                           connected, agent_state, sent, dropped, notified, held>>

PushPrepare(block_hash, signer) ==
    LET i == get_pbft_state(pbft_states, block_hash)
        signed_prepare == [block_hash |-> block_hash, signer_idx |-> signer]
    IN
    /\ ~panicked
    /\ IF i = 0
       THEN Return("push_prepare", signed_prepare, "UnknownProposal")
       ELSE /\ pbft_states' = [pbft_states EXCEPT
                    ![i].aggregation = push_prepare_agg(@, {signer})]
            /\ lock_at_push' = "none"
            /\ last' = Call("push_prepare", signed_prepare, "Ok")
            /\ UNCHANGED <<height, agents, potential_validators, active_validators,
                           view_changes, validator_id, pending, emitted, delivered, panicked,
                           connected, agent_state, sent, dropped, notified, held>>

PushCommit(block_hash, signer) ==
    LET i == get_pbft_state(pbft_states, block_hash)
        signed_commit == [block_hash |-> block_hash, signer_idx |-> signer]
    IN
    /\ ~panicked
    /\ IF i = 0
       THEN Return("push_commit", signed_commit, "UnknownProposal")
       ELSE /\ pbft_states' = [pbft_states EXCEPT
                    ![i].aggregation = push_commit_agg(@, {signer})]
            /\ lock_at_push' = "none"
            /\ last' = Call("push_commit", signed_commit, "Ok")
            /\ UNCHANGED <<height, agents, potential_validators, active_validators,
                           view_changes, validator_id, pending, emitted, delivered, panicked,
                           connected, agent_state, sent, dropped, notified, held>>

OnPbftPrepareLevelUpdate(block_hash, signers) ==
    LET i == get_pbft_state(pbft_states, block_hash) IN
    /\ ~panicked
    /\ IF i = 0
       THEN Drop("PbftPrepare", block_hash)
       ELSE /\ pbft_states' = [pbft_states EXCEPT
                    ![i].aggregation = push_prepare_agg(@, signers)]
            /\ lock_at_push' = "none"
            /\ UNCHANGED <<last, height, agents, potential_validators, active_validators,
                           view_changes, validator_id, pending, emitted, delivered, panicked,
                           connected, agent_state, sent, dropped, notified, held>>

OnPbftCommitLevelUpdate(block_hash, signers) ==
    LET i == get_pbft_state(pbft_states, block_hash) IN
    /\ ~panicked
    /\ IF i = 0
       THEN Drop("PbftCommit", block_hash)
       ELSE /\ pbft_states' = [pbft_states EXCEPT
                    ![i].aggregation = push_commit_agg(@, signers)]
            /\ lock_at_push' = "none"
            /\ UNCHANGED <<last, height, agents, potential_validators, active_validators,
                           view_changes, validator_id, pending, emitted, delivered, panicked,
                           connected, agent_state, sent, dropped, notified, held>>


\* push_prepare up to drop(state): the lookup under the read lock and the
\* clone of the aggregation's Arc; the push itself is the step PushHeld
PushPrepareLookup(block_hash, signer) ==
    LET i == get_pbft_state(pbft_states, block_hash)
        signed_prepare == [block_hash |-> block_hash, signer_idx |-> signer]
    IN
    /\ ~panicked
    /\ held = None
    /\ IF i = 0
       THEN Return("push_prepare", signed_prepare, "UnknownProposal")
       ELSE /\ held' = Some([key |-> block_hash, signers |-> {signer},
                             aggregation |-> None, before_finality |-> FALSE])
            /\ UNCHANGED <<last, height, agents, potential_validators, active_validators,
                           view_changes, pbft_states, validator_id, pending, emitted,
                           delivered, panicked, connected, agent_state, sent,
                           lock_at_push, dropped, notified>>

\* aggregation.push_signed_prepare of push_prepare, after drop(state): into
\* the aggregation of the instance when it is still in the set, into the
\* aggregation alone when it is not; an aggregation that is alone and has
\* nothing to report is dropped with the Arc
PushHeld ==
    /\ ~panicked
    /\ \E x \in held :
        LET signed_prepare == [block_hash |-> x.key,
                               signer_idx |-> CHOOSE signer \in x.signers : TRUE]
        IN
        /\ IF x.aggregation = None
           THEN /\ pbft_states' = [pbft_states EXCEPT
                        ![get_pbft_state(pbft_states, x.key)].aggregation =
                            push_prepare_agg(@, x.signers)]
                /\ held' = None
           ELSE LET pushed == push_prepare_agg(Unwrap(x.aggregation), x.signers) IN
                /\ held' = IF pushed.prepare_due > 0
                           THEN Some([x EXCEPT !.aggregation = Some(pushed)])
                           ELSE None
                /\ UNCHANGED pbft_states
        /\ lock_at_push' = "none"
        /\ last' = Call("push_prepare", signed_prepare, "Ok")
    /\ UNCHANGED <<height, agents, potential_validators, active_validators,
                   view_changes, validator_id, pending, emitted, delivered, panicked,
                   connected, agent_state, sent, dropped, notified>>

----------------------------------------------------------------------------
(* The completion listeners that on_pbft_proposal registers on the prepare *)
(* and the commit aggregation of its instance; `key` is the block hash the *)
(* closure has captured, `best` the signers of the aggregate                *)

\* the coordinator state lock a completion listener takes: the prepare and
\* the commit handler take this.state.write(), the view-change handler only
\* reads the notifier
listener_lock(kind) == IF kind = "ViewChange" THEN "none" ELSE "write"

\* parking_lot::RwLock is not reentrant: a thread that holds a guard of the
\* lock and asks for another one may wait for itself
deadlocks(guard, wanted) == guard # "none" /\ wanted # "none"

\* the prepare handler without `pbft.prepare_proof = Some(prepare_proof)`
prepare_listener_forgetful(states, key, best) ==
    LET i == get_pbft_state(states, key) IN
    IF i # 0 /\ ~IsSome(states[i].prepare_proof)
    THEN [states |-> states,
          event |-> Some(PbftPrepareCompleteEvent(states[i].block_hash))]
    ELSE [states |-> states, event |-> None]

\* the prepare handler's critical section: the new instances and the event, if any
prepare_listener(states, key, best) ==
    LET i == get_pbft_state(states, key) IN
    IF i # 0 /\ ~IsSome(states[i].prepare_proof)
    THEN [states |-> [states EXCEPT ![i].prepare_proof = Some(best)],
          event |-> Some(PbftPrepareCompleteEvent(states[i].block_hash))]
    ELSE [states |-> states, event |-> None]

\* the commit handler's critical section; prepare_proof.take().expect() panics
\* when the proof is not there
commit_listener(states, key, best) ==
    LET i == get_pbft_state(states, key) IN
    IF i = 0
    THEN [states |-> states, event |-> None, panic |-> FALSE]
    ELSE IF ~IsSome(states[i].prepare_proof)
    THEN [states |-> states, event |-> None, panic |-> TRUE]
    ELSE [states |-> [states EXCEPT ![i].prepare_proof = None],
          event |-> Some(PbftCompleteEvent(states[i].block_hash,
                                           Unwrap(states[i].prepare_proof), best)),
          panic |-> FALSE]

\* the transport hands a due Complete of the i-th instance's prepare aggregation
\* to the prepare handler
PrepareComplete(i) ==
    /\ ~panicked
    /\ i \in 1..Len(pbft_states)
    /\ pbft_states[i].aggregation.prepare_due > 0
    /\ LET key == pbft_states[i].block_hash
           best == pbft_states[i].aggregation.prepare
           taken == [pbft_states EXCEPT ![i].aggregation.prepare_due = @ - 1,
                                        ![i].aggregation.prepare_notified = TRUE]
           out == prepare_listener(taken, key, best)
       IN  /\ \A e \in out.event : CanEmit(e)
           /\ pbft_states' = out.states
           /\ Emit(out.event)
    /\ UNCHANGED <<last, height, agents, potential_validators, active_validators, view_changes,
                   validator_id, delivered, panicked,
                   connected, agent_state, sent, lock_at_push, dropped, notified, held>>

\* the same for the commit aggregation; its Complete comes after the prepare
\* handler has run, since the commit evaluator builds on the prepare aggregate
CommitComplete(i) ==
    /\ ~panicked
    /\ i \in 1..Len(pbft_states)
    /\ pbft_states[i].aggregation.commit_due > 0
    /\ pbft_states[i].aggregation.prepare_notified
    /\ LET key == pbft_states[i].block_hash
           best == pbft_states[i].aggregation.commit
           taken == [pbft_states EXCEPT ![i].aggregation.commit_due = @ - 1]
           out == commit_listener(taken, key, best)
       IN  IF out.panic
           THEN Panic("commit_complete", key)
           ELSE /\ \A e \in out.event : CanEmit(e)
                /\ pbft_states' = out.states
                /\ Emit(out.event)
                /\ UNCHANGED <<last, height, agents, potential_validators, active_validators,
                               view_changes, validator_id, delivered, panicked,
                               connected, agent_state, sent, lock_at_push, dropped,
                               notified, held>>


\* the transport hands the Complete of an aggregation whose instance has left
\* the set to the prepare handler registered with it; the handler looks the
\* captured key up in pbft_states
HeldComplete ==
    /\ ~panicked
    /\ \E x \in held :
        /\ x.aggregation # None
        /\ Unwrap(x.aggregation).prepare_due > 0
        /\ LET out == prepare_listener(pbft_states, x.key, Unwrap(x.aggregation).prepare)
           IN  /\ \A e \in out.event : CanEmit(e)
               /\ pbft_states' = out.states
               /\ Emit(out.event)
    /\ held' = None
    /\ UNCHANGED <<last, height, agents, potential_validators, active_validators, view_changes,
                   validator_id, delivered, panicked,
                   connected, agent_state, sent, lock_at_push, dropped, notified>>

----------------------------------------------------------------------------
(* ValidatorNetwork::start_view_change and on_view_change_level_update *)

\* a lookup that compares the block number only
get_view_change_by_block(changes, view_change) ==
    {changes[vc] : vc \in {x \in DOMAIN changes : x.block_number = view_change.block_number}}

\* HashMap::get on view_changes
get_view_change(changes, view_change) ==
    IF view_change \in DOMAIN changes THEN Some(changes[view_change]) ELSE None

StartViewChange(signed_view_change) ==
    LET view_change == signed_view_change.message
        op == "start_view_change"
    IN
    /\ ~panicked
    /\ IF IsSome(get_view_change(view_changes, view_change))
       THEN Return(op, signed_view_change, "ViewChangeAlreadyExists")
       ELSE IF ~IsSome(validator_id)
       THEN Panic(op, signed_view_change)
       ELSE IF signed_view_change.signer_idx # Unwrap(validator_id)
       THEN Panic(op, signed_view_change)
       ELSE LET aggregation == push_view_change_agg(
                    ViewChangeAggregationNew(view_change, Unwrap(validator_id),
                                             active_validators),
                    {signed_view_change.signer_idx})
            IN  /\ view_changes' = [vc \in DOMAIN view_changes \cup {view_change} |->
                                      IF vc = view_change THEN aggregation
                                      ELSE view_changes[vc]]
                /\ lock_at_push' = "write"
                /\ last' = Call(op, signed_view_change, "Ok")
                /\ UNCHANGED <<height, agents, potential_validators, active_validators,
                               pbft_states, validator_id, pending, emitted, delivered,
                               panicked, connected, agent_state, sent, dropped,
                               notified, held>>

\* on_view_change_level_update that starts an aggregation for an unknown tag
OnViewChangeLevelUpdateStarting(view_change, signers) ==
    /\ ~panicked
    /\ IsSome(validator_id)
    /\ view_changes' = MapPut(view_changes, view_change,
            push_view_change_agg(
                IF view_change \in DOMAIN view_changes THEN view_changes[view_change]
                ELSE ViewChangeAggregationNew(view_change, Unwrap(validator_id),
                                              active_validators),
                signers))
    /\ lock_at_push' = "read"
    /\ UNCHANGED <<last, height, agents, potential_validators, active_validators,
                   pbft_states, validator_id, pending, emitted, delivered, panicked,
                   connected, agent_state, sent, dropped, notified, held>>

OnViewChangeLevelUpdate(view_change, signers) ==
    /\ ~panicked
    /\ IF IsSome(get_view_change(view_changes, view_change))
       THEN /\ view_changes' = [view_changes EXCEPT
                    ![view_change] = push_view_change_agg(@, signers)]
            /\ lock_at_push' = "read"
            /\ UNCHANGED <<last, height, agents, potential_validators, active_validators,
                           pbft_states, validator_id, pending, emitted, delivered, panicked,
                           connected, agent_state, sent, dropped, notified, held>>
       ELSE Drop("ViewChange", Subject(view_change))

\* ViewChangeComplete that notifies although the aggregation reported nothing
ViewChangeCompleteUnreported(view_change) ==
    /\ ~panicked
    /\ view_change \in DOMAIN view_changes
    /\ LET event == ViewChangeCompleteEvent(view_change, view_changes[view_change].signers)
       IN  /\ emitted[Key(event)] < MaxEmit
           /\ emitted' = [emitted EXCEPT ![Key(event)] = @ + 1]
           /\ delivered' = delivered \cup {Key(event)}
           /\ notified' = Some(event)
    /\ UNCHANGED <<last, height, agents, potential_validators, active_validators,
                   view_changes, pbft_states, validator_id, pending, panicked,
                   connected, agent_state, sent, lock_at_push, dropped, held>>

\* the listener of start_view_change: it takes no coordinator lock and notifies
\* at once
ViewChangeComplete(view_change) ==
    /\ ~panicked
    /\ view_change \in DOMAIN view_changes
    /\ view_changes[view_change].due > 0
    /\ LET event == ViewChangeCompleteEvent(view_change, view_changes[view_change].signers)
       IN  /\ emitted[Key(event)] < MaxEmit
           /\ emitted' = [emitted EXCEPT ![Key(event)] = @ + 1]
           /\ delivered' = delivered \cup {Key(event)}
           /\ notified' = Some(event)
    /\ view_changes' = [view_changes EXCEPT ![view_change].due = @ - 1]
    /\ UNCHANGED <<last, height, agents, potential_validators, active_validators,
                   pbft_states, validator_id, pending, panicked,
                   connected, agent_state, sent, lock_at_push, dropped, held>>

----------------------------------------------------------------------------
(* The coordinator with every proposal of the model, its view changes and   *)
(* the chain: which instances the set holds                                 *)

\* the proposals that arrive next to view changes
BufferedProposals == {PropA, PropB}

\* the proposal the votes are about
VotedProposals == {PropA}

VotedHashes == {BlockHash(p.message.header) : p \in VotedProposals}

Next ==
    \/ ExtendChain
    \/ \E id \in {None, Some(1)} : OnFinality(id)
    \/ OnBlockchainExtended
    \/ \E p \in Proposals : OnPbftProposal(p)
    \/ \E e \in BagToSet(pending) : Notify(e)

Spec == Init /\ [][Next]_vars

(* The view changes of a validator whose index changes from epoch to epoch, *)
(* next to buffered proposals                                               *)

NextViewChange ==
    \/ \E id \in {None} \cup {Some(i) : i \in NodeIds} : OnFinality(id)
    \/ \E p \in BufferedProposals : OnPbftProposal(p)
    \/ \E v \in SignedViewChanges : StartViewChange(v)
    \/ \E vc \in ViewChanges, s \in SignerSets : OnViewChangeLevelUpdate(vc, s)
    \/ \E vc \in ViewChanges : ViewChangeComplete(vc)

SpecViewChange == Init /\ [][NextViewChange]_vars

(* Proposals that arrive while the next block is not a macro block, and     *)
(* on_blockchain_extended called any number of times at every height        *)

NextResolve ==
    \/ ExtendChain
    \/ \E id \in {Some(1)} : OnFinality(id)
    \/ OnBlockchainExtended
    \/ ~is_macro_block_at(height + 1) /\ (\E p \in Proposals : OnPbftProposal(p))
    \/ \E e \in BagToSet(pending) : Notify(e)

SpecResolve == Init /\ [][NextResolve]_vars

(* Proposals of view 0 that fail each of the checks of check_verified, one  *)
(* by one and together, next to the valid proposals of the views 0 and 1    *)

\* the signers: the owner of the slot of view 0, another validator, and an
\* index outside the validator set
CheckedSigners == {0, 1, Cardinality(Validators)}

\* a header that does not verify is another header, with another hash
CheckedProposals ==
    {SignedProposal(0, IF wellformed THEN "a" ELSE "d", signer, wellformed, signed) :
        signer \in CheckedSigners, wellformed \in BOOLEAN, signed \in BOOLEAN}
    \cup {PropB}

NextCheck ==
    \/ ExtendChain
    \/ \E id \in {Some(1)} : OnFinality(id)
    \/ OnBlockchainExtended
    \/ \E p \in CheckedProposals : OnPbftProposal(p)
    \/ \E e \in BagToSet(pending) : Notify(e)

SpecCheck == Init /\ [][NextCheck]_vars

(* One epoch of one validator with the proposal of view 0 and the votes on  *)
(* it, its own and the level updates of the validators that hold the        *)
(* proposal too: the aggregations and their completions                     *)

NextVote ==
    \/ ExtendChain
    \/ \E id \in {Some(1)} : OnFinality(id)
    \/ OnBlockchainExtended
    \/ \E p \in VotedProposals : OnPbftProposal(p)
    \/ \E h \in VotedHashes, i \in validator_id : PushPrepare(h, i)
    \/ \E h \in VotedHashes, i \in validator_id : PushCommit(h, i)
    \/ \E h \in Range(HashesOf(pbft_states)), s \in SignerSets : OnPbftPrepareLevelUpdate(h, s)
    \/ \E h \in Range(HashesOf(pbft_states)), s \in SignerSets : OnPbftCommitLevelUpdate(h, s)
    \/ \E i \in 1..Len(pbft_states) : PrepareComplete(i)
    \/ \E i \in 1..Len(pbft_states) : CommitComplete(i)
    \/ \E e \in BagToSet(pending) : Notify(e)

SpecVote == Init /\ [][NextVote]_vars

(* The happy path: the validator with index 1 of four, the chain at the     *)
(* macro position, the proposal of view 0 and the prepare and commit        *)
(* signatures of three validators, one call after the other                 *)

HappySigners == {0, 1, 2}

\* the caller's thread has notified its event before the next call
Quiet == pending = EmptyBag

NextHappy ==
    \/ \E e \in BagToSet(pending) : Notify(e)
    \/ Quiet /\ height + 1 < MacroInterval /\ ExtendChain
    \/ Quiet /\ validator_id = None /\ OnFinality(Some(1))
    \/ Quiet /\ pbft_states = <<>> /\ OnBlockchainExtended
    \/ /\ Quiet /\ is_macro_block_at(height + 1) /\ IsSome(validator_id)
       /\ \E p \in VotedProposals : OnPbftProposal(p)
    \/ Quiet /\ (\E h \in VotedHashes, i \in HappySigners : PushPrepare(h, i))
    \/ Quiet /\ (\E h \in VotedHashes, i \in HappySigners : PushCommit(h, i))
    \/ Quiet /\ (\E i \in 1..Len(pbft_states) : PrepareComplete(i))
    \/ Quiet /\ (\E i \in 1..Len(pbft_states) : CommitComplete(i))

SpecHappy == Init /\ [][NextHappy]_vars

(* Votes and level updates for two buffered proposals and one view change:  *)
(* which aggregation a push reaches and which lock it is made under         *)

BufferedHashes == {BlockHash(p.message.header) : p \in BufferedProposals}

\* the view change this node asks for
PushedViewChanges == {[block_number |-> MacroInterval, new_view_number |-> 1]}

\* the aggregate a remote level update carries
PushedSigners == {{0, 2}}

NextPush ==
    \/ \E id \in {Some(1)} : OnFinality(id)
    \/ \E p \in BufferedProposals : OnPbftProposal(p)
    \/ \E h \in BufferedHashes, i \in validator_id : PushPrepare(h, i)
    \/ \E h \in BufferedHashes, i \in validator_id : PushCommit(h, i)
    \/ \E h \in BufferedHashes, s \in PushedSigners : OnPbftPrepareLevelUpdate(h, s)
    \/ \E h \in BufferedHashes, s \in PushedSigners : OnPbftCommitLevelUpdate(h, s)
    \/ \E vc \in PushedViewChanges, i \in validator_id :
            StartViewChange([message |-> vc, signer_idx |-> i])
    \/ \E vc \in PushedViewChanges, s \in PushedSigners : OnViewChangeLevelUpdate(vc, s)

SpecPush == Init /\ [][NextPush]_vars

(* A push_prepare whose thread is between drop(state) and the push while    *)
(* proposals arrive, the chain grows and the epoch ends                     *)

NextStale ==
    \/ \E e \in BagToSet(pending) : Notify(e)
    \/ Quiet /\ ExtendChain
    \/ Quiet /\ (\E id \in {Some(1)} : OnFinality(id))
    \/ Quiet /\ OnBlockchainExtended
    \/ Quiet /\ (\E p \in BufferedProposals : OnPbftProposal(p))
    \/ /\ Quiet
       /\ \E h \in Range(HashesOf(pbft_states)), s \in PushedSigners :
            OnPbftPrepareLevelUpdate(h, s)
    \/ Quiet /\ (\E h \in VotedHashes, i \in validator_id : PushPrepareLookup(h, i))
    \/ Quiet /\ PushHeld
    \/ Quiet /\ HeldComplete
    \/ Quiet /\ (\E i \in 1..Len(pbft_states) : PrepareComplete(i))

SpecStale == Init /\ [][NextStale]_vars

(* The peer table: peers that come and go, with and without the validator   *)
(* service flag, the validator infos they send, and the epochs               *)

NextPeers ==
    \/ \E peer \in Peers : OnPeerJoined(peer)
    \/ \E peer \in Peers : OnPeerLeft(peer)
    \/ \E info \in ValidatorInfos : OnValidatorInfo(info)
    \/ \E id \in {None, Some(1)} : OnFinality(id)

SpecPeers == Init /\ [][NextPeers]_vars

(* A validator that knows other validators and relays the proposals it       *)
(* takes, before and at the macro position                                   *)

RelayedProposals == {PropA, PropB, PropD}

\* the validators this node gets to know, each with the key of its slot
RelayPeers == {1, 2}

RelayInfos == {[peer_id |-> 1, public_key |-> <<"pk", 0>>],
               [peer_id |-> 2, public_key |-> <<"pk", 2>>]}

NextRelay ==
    \/ \E peer \in RelayPeers : pbft_states = <<>> /\ OnPeerJoined(peer)
    \/ \E info \in RelayInfos : pbft_states = <<>> /\ OnValidatorInfo(info)
    \/ \E id \in {Some(1)} : OnFinality(id)
    \/ height + 1 < MacroInterval /\ ExtendChain
    \/ OnBlockchainExtended
    \/ \E p \in RelayedProposals : OnPbftProposal(p)
    \/ \E e \in BagToSet(pending) : Notify(e)

SpecRelay == Init /\ [][NextRelay]_vars

(* Every operation of the coordinator, each with one input: one peer and    *)
(* its key, one proposal, one view change, this node's own votes and one    *)
(* remote aggregate.  The calls come one after the other, the peer joins    *)
(* before the first epoch and leaves between the rounds, a view change      *)
(* precedes the proposal, and level updates are for what this node holds    *)

FramePeers == {1}

FrameInfos == {[peer_id |-> 1, public_key |-> <<"pk", 0>>]}

\* no proposal is held and no view change is under way
Idle == pbft_states = <<>> /\ view_changes = NoMap

NextFrame ==
    \/ \E e \in BagToSet(pending) : Notify(e)
    \/ Quiet /\ validator_id = None /\ (\E peer \in FramePeers : OnPeerJoined(peer))
    \/ Quiet /\ Idle /\ (\E peer \in FramePeers : OnPeerLeft(peer))
    \/ Quiet /\ Idle /\ (\E info \in FrameInfos : OnValidatorInfo(info))
    \/ Quiet /\ (\E id \in {Some(i) : i \in NodeIds} : OnFinality(id))
    \/ Quiet /\ height + 1 < MacroInterval /\ ExtendChain
    \/ Quiet /\ OnBlockchainExtended
    \/ Quiet /\ (\E p \in VotedProposals : OnPbftProposal(p))
    \/ Quiet /\ (\E h \in VotedHashes, i \in validator_id : PushPrepare(h, i))
    \/ Quiet /\ (\E h \in VotedHashes, i \in validator_id : PushCommit(h, i))
    \/ /\ Quiet
       /\ \E h \in Range(HashesOf(pbft_states)), s \in PushedSigners :
            OnPbftPrepareLevelUpdate(h, s)
    \/ /\ Quiet
       /\ \E h \in Range(HashesOf(pbft_states)), s \in PushedSigners :
            OnPbftCommitLevelUpdate(h, s)
    \/ Quiet /\ (\E i \in 1..Len(pbft_states) : PrepareComplete(i))
    \/ Quiet /\ (\E i \in 1..Len(pbft_states) : CommitComplete(i))
    \/ /\ Quiet /\ pbft_states = <<>>
       /\ \E vc \in PushedViewChanges, i \in validator_id :
            StartViewChange([message |-> vc, signer_idx |-> i])
    \/ /\ Quiet /\ pbft_states = <<>>
       /\ \E vc \in DOMAIN view_changes, s \in PushedSigners : OnViewChangeLevelUpdate(vc, s)
    \/ Quiet /\ pbft_states = <<>> /\ (\E vc \in PushedViewChanges : ViewChangeComplete(vc))

SpecFrame == Init /\ [][NextFrame]_vars

(* One epoch from its finality on: a validator that knows one other         *)
(* validator, the chain up to the macro block and past it, and proposals     *)
(* that arrive again and again                                               *)

NextEpoch ==
    \/ \E peer \in FramePeers : validator_id = None /\ OnPeerJoined(peer)
    \/ \E info \in FrameInfos : validator_id = None /\ OnValidatorInfo(info)
    \/ validator_id = None /\ OnFinality(Some(1))
    \/ ExtendChain
    \/ OnBlockchainExtended
    \/ \E p \in RelayedProposals : OnPbftProposal(p)
    \/ \E e \in BagToSet(pending) : Notify(e)

SpecEpoch == Init /\ [][NextEpoch]_vars

----------------------------------------------------------------------------
(* Properties of on_pbft_proposal when the next block is a macro block *)

HashOf(signed_proposal) == BlockHash(signed_proposal.message.header)

\* the proposal is new, the next block is a macro block, and it passes check_verified
VerifiedArrival(p) ==
    /\ get_pbft_state(pbft_states, HashOf(p)) = 0
    /\ is_macro_block_at(height + 1)
    /\ IsSome(validator_id)
    /\ check_verified(p) = "true"

\* the coordinator state and the notifications are as before the call
Untouched ==
    UNCHANGED <<agents, potential_validators, active_validators, view_changes,
                pbft_states, validator_id, pending, emitted, delivered,
                connected, agent_state, sent>>

\* C1: a new proposal that arrives at the macro position and passes
\* check_verified replaces the whole set when its view_number is above that of
\* every instance in the set, and otherwise leaves the set as it was.
C1_ReplaceOrKeep ==
    [][\A p \in Proposals :
        (OnPbftProposal(p) /\ VerifiedArrival(p)) =>
            IF \A i \in 1..Len(pbft_states) :
                  ViewOf(pbft_states[i]) < p.message.header.view_number
            THEN /\ Len(pbft_states') = 1
                 /\ pbft_states'[1].proposal = p
                 /\ pbft_states'[1].block_hash = HashOf(p)
            ELSE pbft_states' = pbft_states]_vars

\* a verified proposal of a higher view has replaced the instance of a lower view
C1_Witness ==
    /\ last.op = "on_pbft_proposal"
    /\ last.ret = "Ok"
    /\ is_macro_block_at(height + 1)
    /\ Len(last.hashes_before) = 1
    /\ last.hashes_before[1] = HashOf(PropA)
    /\ last.arg = PropB
    /\ HashesOf(pbft_states) = <<HashOf(PropB)>>

\* the set holds an instance of another block with the view_number of p
Collides(p) ==
    \E i \in 1..Len(pbft_states) :
        /\ pbft_states[i].block_hash # HashOf(p)
        /\ ViewOf(pbft_states[i]) = p.message.header.view_number

----------------------------------------------------------------------------
(* Properties of on_blockchain_extended at the macro position *)

\* the call runs at the macro position and at least one instance passes
\* check_verified
Resolves ==
    /\ OnBlockchainExtended
    /\ is_macro_block_at(height + 1)
    /\ \E i \in 1..Len(pbft_states) : Verified(pbft_states[i])
    /\ ~panicked'

\* C8: after on_blockchain_extended at the macro position with a verified
\* instance, the set holds one instance, which was in the set, passes
\* check_verified and has the greatest view_number of the verified ones, and
\* the call has emitted the one event PbftProposal(winner.hash, winner.proposal).
C8_OneWinnerOfMaxView ==
    [][Resolves =>
        /\ Len(pbft_states') = 1
        /\ pbft_states'[1] \in Range(pbft_states)
        /\ Verified(pbft_states'[1])
        /\ \A i \in 1..Len(pbft_states) :
              Verified(pbft_states[i]) => ViewOf(pbft_states[i]) <= ViewOf(pbft_states'[1])
        /\ pending' = pending (+) SetToBag({PbftProposalEvent(pbft_states'[1].block_hash)})]_vars

\* of three buffered proposals, one of them invalid, the valid one of the
\* highest view was kept and announced
C8_Witness ==
    /\ last.op = "on_blockchain_extended"
    /\ last.hashes_before = <<HashOf(PropD), HashOf(PropB), HashOf(PropA)>>
    /\ HashesOf(pbft_states) = <<HashOf(PropB)>>
    /\ BagIn(PbftProposalEvent(HashOf(PropB)), pending)

\* C9 as claimed: of the verified instances with the greatest view_number the
\* one received first wins, whatever was received between them.
C9_FirstOfViewWins ==
    [][Resolves =>
        \A i \in 1..Len(pbft_states) :
            (/\ Verified(pbft_states[i])
             /\ ViewOf(pbft_states[i]) = ViewOf(pbft_states'[1])
             /\ \A j \in 1..(i - 1) :
                   ~(Verified(pbft_states[j]) /\ DedupKey(pbft_states[j]) = DedupKey(pbft_states[i])))
            => pbft_states'[1] = pbft_states[i]]_vars

----------------------------------------------------------------------------
(* Properties of on_finality and start_view_change *)

\* C7: when on_finality(id) has returned, view_changes and pbft_states are
\* empty and validator_id is id, until the next call of the interface.
C7_FinalityResets ==
    last.op = "on_finality" =>
        /\ view_changes = NoMap
        /\ pbft_states = <<>>
        /\ validator_id = last.arg

\* on_finality(Some(2)) has dropped two instances and one view change
C7_Witness ==
    /\ last.op = "on_finality"
    /\ last.arg = Some(2)
    /\ Len(last.hashes_before) = 2
    /\ Cardinality(last.view_changes_before) = 1
    /\ validator_id = Some(2)
    /\ pbft_states = <<>>
    /\ view_changes = NoMap

\* the signed view change is this node's own
Own(v) == IsSome(validator_id) /\ v.signer_idx = Unwrap(validator_id)

\* C10: start_view_change for a view change that has an aggregation returns
\* ViewChangeAlreadyExists and leaves view_changes and everything else as it
\* was; for a view change that has none, signed by this node, it returns Ok and
\* adds one aggregation for it, which holds this node's contribution alone.
C10_StartViewChangeOnce ==
    [][\A v \in SignedViewChanges :
        StartViewChange(v) =>
            IF v.message \in DOMAIN view_changes
            THEN /\ last'.ret = "ViewChangeAlreadyExists"
                 /\ last'.arg.message = v.message
                 /\ Untouched
            ELSE Own(v) =>
                 /\ last'.ret = "Ok"
                 /\ DOMAIN view_changes' = DOMAIN view_changes \cup {v.message}
                 /\ \A vc \in DOMAIN view_changes : view_changes'[vc] = view_changes[vc]
                 /\ view_changes'[v.message].tag = v.message
                 /\ view_changes'[v.message].signers = {Unwrap(validator_id)}
                 /\ UNCHANGED <<pbft_states, validator_id, pending, emitted, delivered>>]_vars

\* the second start_view_change was refused and the aggregation, which has
\* collected other signers meanwhile, is as it was
C10_Witness ==
    /\ last.op = "start_view_change"
    /\ last.ret = "ViewChangeAlreadyExists"
    /\ last.arg.message \in DOMAIN view_changes
    /\ view_changes[last.arg.message].signers = {1, 3}
    /\ Cardinality(DOMAIN view_changes) = 2

----------------------------------------------------------------------------
(* Properties of the completion handlers *)

\* C3 as claimed: between two finalities PbftPrepareComplete(h, _) is emitted
\* at most once for every block hash h.
C3_PrepareCompleteOnce ==
    \A h \in Hashes : emitted[<<"PbftPrepareComplete", h>>] <= 1

\* C4 as claimed: between two finalities PbftComplete(h, _, _) is emitted at
\* most once for every block hash h.
C4_CompleteOnce ==
    \A h \in Hashes : emitted[<<"PbftComplete", h>>] <= 1

\* C5 as claimed: PbftComplete(h, _, _) is delivered to the block producer only
\* after PbftPrepareComplete(h, _) has been delivered.
C5_PrepareDeliveredFirst ==
    \A h \in Hashes :
        <<"PbftComplete", h>> \in delivered => <<"PbftPrepareComplete", h>> \in delivered

\* C6: on the happy path PbftProposal(h, p) is emitted when the proposal is
\* taken; three prepare signatures make the prepare completion due, and it
\* emits PbftPrepareComplete(h, p); the commit completion emits
\* PbftComplete(h, p, proof) with the stored prepare proof and the commit
\* aggregate, three signers each; each event occurs once, the three are
\* delivered in this order, and nothing panics.
C6_HappyPath ==
    LET h == HashOf(PropA)
        proposed == <<"PbftProposal", h>>
        prepared == <<"PbftPrepareComplete", h>>
        complete == <<"PbftComplete", h>>
    IN
    /\ ~panicked
    /\ \A k \in EventKeys : emitted[k] <= 1
    /\ pbft_states # <<>> => emitted[proposed] = 1
    /\ prepared \in delivered => proposed \in delivered
    /\ complete \in delivered => prepared \in delivered
    /\ \A i \in 1..Len(pbft_states) :
          LET pbft == pbft_states[i] IN
          /\ Cardinality(pbft.aggregation.prepare) >= 3 =>
                (pbft.aggregation.prepare_due > 0 \/ emitted[prepared] = 1)
          /\ emitted[prepared] = 1 =>
                (pbft.prepare_proof = Some(HappySigners) \/ emitted[complete] = 1)
          /\ emitted[complete] = 1 => pbft.prepare_proof = None
    /\ \A e \in BagToSet(pending) :
          e.type = "PbftComplete" => (e.prepare = HappySigners /\ e.commit = HappySigners)

\* the three events have been delivered and the prepare proof went into the proof
C6_Witness ==
    /\ delivered = {<<"PbftProposal", HashOf(PropA)>>,
                    <<"PbftPrepareComplete", HashOf(PropA)>>,
                    <<"PbftComplete", HashOf(PropA)>>}
    /\ Len(pbft_states) = 1
    /\ pbft_states[1].aggregation.prepare = HappySigners
    /\ pbft_states[1].aggregation.commit = HappySigners
    /\ pbft_states[1].prepare_proof = None
    /\ pending = EmptyBag

----------------------------------------------------------------------------
(* Properties of push_prepare and push_commit *)

\* the instance of the set with this block hash, 0 when there is none
Holds(hash) ==
    IF \E k \in 1..Len(pbft_states) : pbft_states[k].block_hash = hash
    THEN CHOOSE k \in 1..Len(pbft_states) : pbft_states[k].block_hash = hash
    ELSE 0

\* the k-th instance is as it was but for its aggregation, every other
\* instance and everything else in the coordinator is as it was
OnlyAggregationOf(k) ==
    /\ Len(pbft_states') = Len(pbft_states)
    /\ \A j \in 1..Len(pbft_states) : j # k => pbft_states'[j] = pbft_states[j]
    /\ pbft_states'[k].proposal = pbft_states[k].proposal
    /\ pbft_states'[k].block_hash = pbft_states[k].block_hash
    /\ pbft_states'[k].prepare_proof = pbft_states[k].prepare_proof
    /\ UNCHANGED <<agents, potential_validators, active_validators, view_changes,
                   validator_id, pending, emitted, delivered, connected, agent_state, sent>>

\* C11: push_prepare and push_commit for a block hash that is not in the set
\* return UnknownProposal and change nothing; for a hash that is in the set they
\* return Ok and add the signer to the prepare (resp. commit) aggregate of the
\* instance with this hash and to nothing else.
C11_PushReachesItsInstance ==
    [][\A h \in BufferedHashes, i \in Validators :
        /\ PushPrepare(h, i) =>
              IF Holds(h) = 0
              THEN last'.ret = "UnknownProposal" /\ Untouched
              ELSE /\ last'.ret = "Ok"
                   /\ OnlyAggregationOf(Holds(h))
                   /\ pbft_states'[Holds(h)].aggregation.prepare =
                          pbft_states[Holds(h)].aggregation.prepare \cup {i}
                   /\ pbft_states'[Holds(h)].aggregation.commit =
                          pbft_states[Holds(h)].aggregation.commit
        /\ PushCommit(h, i) =>
              IF Holds(h) = 0
              THEN last'.ret = "UnknownProposal" /\ Untouched
              ELSE /\ last'.ret = "Ok"
                   /\ OnlyAggregationOf(Holds(h))
                   /\ pbft_states'[Holds(h)].aggregation.commit =
                          pbft_states[Holds(h)].aggregation.commit \cup {i}
                   /\ pbft_states'[Holds(h)].aggregation.prepare =
                          pbft_states[Holds(h)].aggregation.prepare]_vars

\* of two buffered instances the second has taken this node's commit, the
\* first holds a remote prepare aggregate and no commit
C11_Witness ==
    /\ last.op = "push_commit"
    /\ last.ret = "Ok"
    /\ Len(pbft_states) = 2
    /\ pbft_states[2].block_hash = last.arg.block_hash
    /\ pbft_states[2].aggregation.commit = {1}
    /\ pbft_states[2].aggregation.prepare = {}
    /\ pbft_states[1].aggregation.commit = {}
    /\ pbft_states[1].aggregation.prepare = {0, 2}

\* push_prepare for a hash of which the set has no instance was refused
C11_WitnessUnknown ==
    /\ last.op = "push_prepare"
    /\ last.ret = "UnknownProposal"
    /\ Len(pbft_states) = 1
    /\ pbft_states[1].block_hash # last.arg.block_hash

----------------------------------------------------------------------------
(* Properties of on_pbft_proposal for a proposal it has an instance of *)

\* C12: on_pbft_proposal of a proposal whose block hash has an instance in the
\* set returns Ok and leaves the set, with the aggregation and the prepare_proof
\* of that instance, and everything else as it was; it emits no event and sends
\* nothing, whether or not the next block is a macro block.
C12_KnownProposalIgnored ==
    [][\A p \in Proposals :
        (OnPbftProposal(p) /\ Holds(HashOf(p)) # 0) =>
            /\ last'.op = "on_pbft_proposal"
            /\ last'.ret = "Ok"
            /\ ~panicked'
            /\ Untouched]_vars

\* at the macro position the proposal came again after its instance had
\* collected votes and stored its prepare proof
C12_Witness ==
    /\ last.op = "on_pbft_proposal"
    /\ last.ret = "Ok"
    /\ last.arg = PropA
    /\ last.hashes_before = <<HashOf(PropA)>>
    /\ is_macro_block_at(height + 1)
    /\ Len(pbft_states) = 1
    /\ IsSome(pbft_states[1].prepare_proof)
    /\ pbft_states[1].aggregation.commit # {}

\* before the macro position the proposal came again after its buffered
\* instance had collected votes
C12_WitnessBuffered ==
    /\ last.op = "on_pbft_proposal"
    /\ last.ret = "Ok"
    /\ last.arg = PropA
    /\ last.hashes_before = <<HashOf(PropA)>>
    /\ ~is_macro_block_at(height + 1)
    /\ Len(pbft_states) = 1
    /\ pbft_states[1].aggregation.prepare # {}

----------------------------------------------------------------------------
(* Properties of on_pbft_proposal when the next block is not a macro block *)

\* C13: when the next block is not a macro block, on_pbft_proposal of a
\* proposal with a new hash, valid or not, appends an instance of it to the
\* set, keeps every instance of the set, returns Ok and emits no event; the
\* node is an active validator, as the call requires.
C13_BufferedAppended ==
    [][\A p \in Proposals :
        (/\ OnPbftProposal(p)
         /\ Holds(HashOf(p)) = 0
         /\ (height + 1) % MacroInterval # 0
         /\ IsSome(validator_id)) =>
            /\ last'.ret = "Ok"
            /\ ~panicked'
            /\ Len(pbft_states') = Len(pbft_states) + 1
            /\ SubSeq(pbft_states', 1, Len(pbft_states)) = pbft_states
            /\ pbft_states'[Len(pbft_states')].proposal = p
            /\ pbft_states'[Len(pbft_states')].block_hash = HashOf(p)
            /\ pbft_states'[Len(pbft_states')].prepare_proof = None
            /\ UNCHANGED <<pending, emitted, delivered, view_changes, validator_id>>]_vars

\* the proposals of view 0 and of view 2, the latter signed by a validator
\* that does not own the slot, are both buffered and nothing was emitted
C13_Witness ==
    /\ last.op = "on_pbft_proposal"
    /\ last.ret = "Ok"
    /\ last.arg = PropD
    /\ ~is_macro_block_at(height + 1)
    /\ HashesOf(pbft_states) = <<HashOf(PropA), HashOf(PropD)>>
    /\ pending = EmptyBag
    /\ \A k \in EventKeys : emitted[k] = 0

----------------------------------------------------------------------------
(* Properties of on_pbft_proposal towards the other validators *)

\* the chain names the producer of the proposal's slot, and the signer is not
\* that producer, or the header or the signature is not valid
Fails(p) ==
    LET header == p.message.header IN
    /\ header.block_number <= height + 1
    /\ \/ get_current_validator_by_idx(p.signer_idx) = None
       \/ get_current_validator_by_idx(p.signer_idx) #
             Some(<<"pk", header.view_number % Cardinality(Validators)>>)
       \/ ~header.wellformed
       \/ ~p.signature_ok

\* C14: at the macro position a new proposal that fails check_verified, as one
\* whose signer does not own the slot of its block and view does, makes
\* on_pbft_proposal return InvalidProposal; the set and everything else is as it
\* was, no event is emitted and nothing is sent to the known validators.
C14_InvalidRejected ==
    [][\A p \in Proposals :
        (/\ OnPbftProposal(p)
         /\ Holds(HashOf(p)) = 0
         /\ (height + 1) % MacroInterval = 0
         /\ IsSome(validator_id)
         /\ Fails(p)) =>
            /\ last'.ret = "InvalidProposal"
            /\ ~panicked'
            /\ Untouched]_vars

\* the proposal of view 2, signed by the validator with index 0, was refused
\* by a node that holds the proposal of view 0 and knows two validators
C14_Witness ==
    /\ last.op = "on_pbft_proposal"
    /\ last.ret = "InvalidProposal"
    /\ last.arg = PropD
    /\ HashesOf(pbft_states) = <<HashOf(PropA)>>
    /\ Cardinality(DOMAIN potential_validators) = 2
    /\ \A m \in sent : PropD \notin m[2].proposal
    /\ \E m \in sent : PropA \in m[2].proposal

\* C15 as claimed: every call of on_pbft_proposal that returns Ok for a proposal
\* whose hash was not in the set has sent the proposal to the peer of every
\* agent in potential_validators, also when it did not insert the proposal.
C15_AlwaysRelayed ==
    [][\A p \in Proposals :
        (/\ OnPbftProposal(p)
         /\ Holds(HashOf(p)) = 0
         /\ last'.ret = "Ok") =>
            \A key \in DOMAIN potential_validators :
                <<potential_validators[key].peer_id, PbftProposalMessage(p)>> \in sent']_vars

----------------------------------------------------------------------------
(* Invariants of the set and of the peer table *)

\* C16 as claimed: in every state in which the next block is a macro block the
\* set holds at most one instance, whatever the order of chain extension,
\* on_blockchain_extended and on_pbft_proposal.
C16_OneInstanceAtMacro ==
    is_macro_block_at(height + 1) => Len(pbft_states) <= 1

\* C17 as claimed: every key in potential_validators maps to an agent that is
\* in agents.
C17_PotentialInAgents ==
    \A key \in DOMAIN potential_validators :
        \E peer \in DOMAIN agents : agents[peer] = potential_validators[key]

\* C18: agents has an entry for exactly the connected peers that advertise the
\* validator service flag; the join of a peer without the flag changes nothing
\* in the coordinator and sends nothing, and only a join or a leave changes
\* agents.
C18_AgentsAreConnectedValidators ==
    /\ [](DOMAIN agents = {peer \in connected : is_validator(peer)})
    /\ [][(\A peer \in Peers :
              (OnPeerJoined(peer) /\ ~is_validator(peer)) =>
                  UNCHANGED <<agents, potential_validators, active_validators,
                              view_changes, pbft_states, validator_id, pending,
                              emitted, delivered, agent_state, sent>>)
           /\ (agents' # agents =>
                 \E peer \in Peers : OnPeerJoined(peer) \/ OnPeerLeft(peer))]_vars

\* a validator peer has joined and left, a second validator peer and a peer
\* without the flag are connected, and an epoch has begun since
C18_Witness ==
    /\ connected = {2, 3}
    /\ DOMAIN agents = {2}
    /\ Cardinality(DOMAIN agent_state) = 2
    /\ \E m \in sent : m[1] = 1
    /\ \A m \in sent : m[1] # 3
    /\ last.op = "on_finality"

----------------------------------------------------------------------------
(* Properties of the remote level updates and of the pushes *)

\* the coordinator, its notifications and the last call are as they were, and
\* nothing was pushed
Still == Untouched /\ UNCHANGED <<height, last, panicked, lock_at_push>>

\* C19: a remote level update, of a view change or of the prepare or commit
\* votes of a proposal, whose tag or block hash has no aggregation in the
\* coordinator changes nothing: no aggregation and no instance is created and
\* no event is emitted; on_view_change_level_update never adds a view change.
C19_UnknownLevelUpdateDropped ==
    [][/\ \A h \in BufferedHashes, s \in PushedSigners :
            /\ (OnPbftPrepareLevelUpdate(h, s) /\ Holds(h) = 0) => Still
            /\ (OnPbftCommitLevelUpdate(h, s) /\ Holds(h) = 0) => Still
       /\ \A vc \in PushedViewChanges, s \in PushedSigners :
            OnViewChangeLevelUpdate(vc, s) =>
                /\ DOMAIN view_changes' = DOMAIN view_changes
                /\ vc \notin DOMAIN view_changes => Still]_vars

\* an active validator that holds a proposal and has not asked for the view
\* change has dropped the level update of that view change
C19_Witness ==
    /\ dropped = Some(<<"ViewChange", Subject([block_number |-> MacroInterval,
                                                new_view_number |-> 1])>>)
    /\ view_changes = NoMap
    /\ validator_id = Some(1)
    /\ pbft_states # <<>>

\* a node that holds the proposal of view 0 has dropped the commit level
\* update for the proposal of view 1
C19_WitnessCommit ==
    /\ dropped = Some(<<"PbftCommit", HashOf(PropB)>>)
    /\ HashesOf(pbft_states) = <<HashOf(PropA)>>
    /\ pbft_states[1].aggregation.commit = {}

\* C20 as claimed: no push into a view-change, prepare or commit aggregation is
\* made by a thread that holds the coordinator lock, shared or exclusive.
C20_NoLockAtPush ==
    lock_at_push = "none"

----------------------------------------------------------------------------
(* Properties of the coordinator towards remote inputs *)

\* C21 as claimed: no input that comes from a peer, and no completion of an
\* aggregation, ends in a panic; only the calls of the local validator
\* (on_blockchain_extended, start_view_change) can.
C21_RemoteNeverPanics ==
    panicked => last.op \in {"on_blockchain_extended", "start_view_change"}

----------------------------------------------------------------------------
(* Properties of active_validators and of the peer table *)

\* C22: after on_finality, active_validators holds the index i exactly when
\* the key of the i-th validator of the chain's current set is a key of
\* potential_validators, and maps i to the agent stored under that key;
\* unknown validators are skipped without a failure, and potential_validators
\* and agents are as they were.
C22_ActiveRebuilt ==
    [][\A id \in {None, Some(1)} :
        OnFinality(id) =>
            /\ ~panicked'
            /\ \A i \in Validators :
                  LET key == Unwrap(get_current_validator_by_idx(i)) IN
                  /\ i \in DOMAIN active_validators' <=> key \in DOMAIN potential_validators
                  /\ key \in DOMAIN potential_validators =>
                        active_validators'[i] = potential_validators[key]
            /\ DOMAIN active_validators' \subseteq Validators
            /\ UNCHANGED <<potential_validators, agents, agent_state, connected, sent>>]_vars

\* the validators 0 and 2 are known by their keys, 1 and 3 are not, and
\* on_finality has made the active validators of them
C22_Witness ==
    /\ last.op = "on_finality"
    /\ DOMAIN potential_validators = {<<"pk", 0>>, <<"pk", 2>>}
    /\ DOMAIN active_validators = {0, 2}
    /\ active_validators[0] = potential_validators[<<"pk", 0>>]
    /\ active_validators[2] = potential_validators[<<"pk", 2>>]
    /\ active_validators[0] # active_validators[2]

\* C23: active_validators and validator_id are changed by on_finality only:
\* every step of any other operation (join, leave, on_validator_info,
\* on_pbft_proposal, on_blockchain_extended, start_view_change, the pushes,
\* the level updates, the completion callbacks) leaves both as they are, so
\* a validator whose info arrives after finality is not active before the
\* next finality.
C23_OnlyFinalityChangesActive ==
    [][(active_validators' # active_validators \/ validator_id' # validator_id)
          => \E id \in {None} \cup {Some(i) : i \in NodeIds} : OnFinality(id)]_vars

\* the info of validator 0 arrived after finality: its key is a potential
\* validator, the node is in an epoch, and validator 0 is not active
C23_Witness ==
    /\ IsSome(validator_id)
    /\ <<"pk", 0>> \in DOMAIN potential_validators
    /\ 0 \notin DOMAIN active_validators

----------------------------------------------------------------------------
(* Properties of check_verified *)

\* (a) the signer index names a validator of the current set whose key is
\* the key of the producer slot at the proposal's block and view
SignerOwnsSlot(p) ==
    /\ p.signer_idx \in Validators
    /\ <<"pk", p.signer_idx>> =
          Unwrap(get_block_producer_at(p.message.header.block_number,
                                       p.message.header.view_number))

\* the chain resolves the producer slot of the proposal
SlotResolved(p) ==
    IsSome(get_block_producer_at(p.message.header.block_number,
                                 p.message.header.view_number))

\* (a), (b) and (c) together
PassesAll(p) ==
    /\ SignerOwnsSlot(p)
    /\ verify_block_header(p.message.header)
    /\ p.signature_ok

\* C24: when the chain resolves the producer slot of the proposal,
\* check_verified is true exactly when the signer owns the slot, the header
\* verifies and the signature verifies, and false otherwise; a proposal that
\* arrives at the macro position and fails one of them is answered with
\* InvalidProposal, without a panic and with the coordinator as it was, and
\* on_blockchain_extended retains no instance that fails one of them.
C24_CheckVerified ==
    /\ [](\A p \in CheckedProposals :
            SlotResolved(p) =>
                /\ check_verified(p) \in {"true", "false"}
                /\ check_verified(p) = "true" <=> PassesAll(p))
    /\ [][\A p \in CheckedProposals :
            (/\ OnPbftProposal(p)
             /\ is_macro_block_at(height + 1)
             /\ IsSome(validator_id)
             /\ get_pbft_state(pbft_states, BlockHash(p.message.header)) = 0)
            => IF PassesAll(p)
               THEN last'.ret \in {"Ok", "ProposalCollision"} /\ ~panicked'
               ELSE last'.ret = "InvalidProposal" /\ ~panicked' /\ Untouched]_vars
    /\ [][(OnBlockchainExtended /\ is_macro_block_at(height + 1))
            => /\ ~panicked'
               /\ \A i \in 1..Len(pbft_states') : PassesAll(pbft_states'[i].proposal)
               /\ (\E i \in 1..Len(pbft_states) : PassesAll(pbft_states[i].proposal))
                     => pbft_states' # <<>>]_vars

\* the proposal of view 0 by the owner of the slot, with a header that
\* verifies and a signature that does not, was answered with InvalidProposal
C24_Witness ==
    /\ last.op = "on_pbft_proposal"
    /\ last.arg = SignedProposal(0, "a", 0, TRUE, FALSE)
    /\ last.ret = "InvalidProposal"
    /\ ~panicked

----------------------------------------------------------------------------
(* Properties of on_blockchain_extended *)

\* a call of on_blockchain_extended in this state, whatever else it does,
\* leaves pbft_states as it is
Settled == ~ENABLED (OnBlockchainExtended /\ pbft_states' # pbft_states)

\* C25: on_blockchain_extended is idempotent on pbft_states: in the state a
\* call of on_blockchain_extended has left, a second call with the same chain
\* and the same buffered proposals leaves pbft_states as it is.
C25_Idempotent ==
    [][OnBlockchainExtended => Settled']_vars

\* proposals arrive only while buffered, so the two PbftProposal events of
\* this epoch for the proposal of view 1 come from two calls of
\* on_blockchain_extended at the macro position; the second found the one
\* instance the first had left and left it
C25_Witness ==
    /\ last.op = "on_blockchain_extended"
    /\ last.hashes_before = <<HashOf(PropB)>>
    /\ HashesOf(pbft_states) = <<HashOf(PropB)>>
    /\ emitted[<<"PbftProposal", HashOf(PropB)>>] = 2

----------------------------------------------------------------------------
(* Properties of the ViewChangeComplete event *)

\* the step notifies a ViewChangeComplete event with this tag
NotifiesViewChange(vc) ==
    LET k == <<"ViewChangeComplete", Subject(vc)>> IN
    \/ emitted'[k] > emitted[k]
    \/ k \in delivered' \ delivered
    \/ notified' # notified /\ \E e \in notified' : e.subject = Subject(vc)

\* C26: an aggregation for a tag comes into view_changes only by a
\* start_view_change(tag) that returns Ok; a ViewChangeComplete event for a
\* tag is notified only when the aggregation this node holds for the tag has
\* a completion to report, it consumes that report, and it carries the tag
\* and the signers of the aggregate, which are two thirds of the validators
\* or more; a report is consumed only by the notification of its event.  So
\* no ViewChangeComplete is notified for a tag this node never started.
C26_ViewChangeCompleteOfStarted ==
    /\ [][\A vc \in ViewChanges :
            (vc \notin DOMAIN view_changes /\ vc \in DOMAIN view_changes') =>
                /\ \E i \in NodeIds : StartViewChange([message |-> vc, signer_idx |-> i])
                /\ last'.op = "start_view_change" /\ last'.ret = "Ok"
                /\ last'.arg.message = vc
                /\ view_changes'[vc].tag = vc]_vars
    /\ [][\A vc \in ViewChanges :
            NotifiesViewChange(vc) =>
                /\ vc \in DOMAIN view_changes /\ vc \in DOMAIN view_changes'
                /\ view_changes[vc].due > 0
                /\ view_changes'[vc].due = view_changes[vc].due - 1
                /\ PrepareFinal(view_changes[vc].signers)
                /\ emitted'[<<"ViewChangeComplete", Subject(vc)>>] =
                      emitted[<<"ViewChangeComplete", Subject(vc)>>] + 1
                /\ <<"ViewChangeComplete", Subject(vc)>> \in delivered'
                /\ notified' = Some([type |-> "ViewChangeComplete",
                                     subject |-> Subject(vc),
                                     prepare |-> view_changes[vc].signers,
                                     commit |-> {}])]_vars
    /\ [][\A vc \in ViewChanges :
            (/\ vc \in DOMAIN view_changes /\ vc \in DOMAIN view_changes'
             /\ view_changes'[vc].due < view_changes[vc].due)
            => NotifiesViewChange(vc)]_vars
    /\ [](\A e \in notified :
            \E vc \in ViewChanges :
                /\ e.subject = Subject(vc)
                /\ <<"ViewChangeComplete", Subject(vc)>> \in delivered)

\* validator 1 started the view change to view 1, the aggregate of the
\* validators 0 and 2 completed it, and the event with the three signers
\* was notified, while the view change to view 2, known from a level update
\* only, has no aggregation and no event
C26_Witness ==
    LET vc1 == [block_number |-> MacroInterval, new_view_number |-> 1]
        vc2 == [block_number |-> MacroInterval, new_view_number |-> 2]
    IN  /\ DOMAIN view_changes = {vc1}
        /\ notified = Some(ViewChangeCompleteEvent(vc1, {0, 1, 2}))
        /\ view_changes[vc1].due = 0
        /\ dropped = Some(<<"ViewChange", Subject(vc2)>>)
        /\ <<"ViewChangeComplete", Subject(vc2)>> \notin delivered

----------------------------------------------------------------------------
(* Properties of on_validator_info *)

\* C27: in every reachable state no agent is the value of more than one key
\* of potential_validators, so potential_validators has no more keys than
\* there are agents it refers to.
C27_OneKeyPerAgent ==
    \A k1, k2 \in DOMAIN potential_validators :
        potential_validators[k1] = potential_validators[k2] => k1 = k2

\* the agent of the peer exists and has no info, or an info with another key
TakesInfo(info) ==
    /\ info.peer_id \in DOMAIN agents
    /\ \A current_info \in agent_state[agents[info.peer_id]] :
          current_info.public_key # info.public_key

\* C28: on_validator_info(info), when the peer has an agent whose stored info
\* is absent or has another public key, makes info the agent's stored info
\* and sets potential_validators[info.public_key] to that agent, whoever
\* held the key before, and changes no other key and no other agent; when
\* the stored info has the same key, or the peer has no agent, it changes
\* nothing.
C28_OnValidatorInfo ==
    [][\A info \in ValidatorInfos :
        OnValidatorInfo(info) =>
            IF TakesInfo(info)
            THEN LET agent == agents[info.peer_id] IN
                 /\ agent_state'[agent] = Some(info)
                 /\ \A a \in DOMAIN agent_state \ {agent} : agent_state'[a] = agent_state[a]
                 /\ DOMAIN agent_state' = DOMAIN agent_state
                 /\ DOMAIN potential_validators' =
                        DOMAIN potential_validators \cup {info.public_key}
                 /\ potential_validators'[info.public_key] = agent
                 /\ \A k \in DOMAIN potential_validators \ {info.public_key} :
                        potential_validators'[k] = potential_validators[k]
                 /\ UNCHANGED <<height, agents, active_validators, view_changes,
                                pbft_states, validator_id, pending, emitted, delivered,
                                last, panicked, connected, sent>>
            ELSE UNCHANGED vars]_vars

\* the key pk0 was held by the agent of peer 1, whose stored info still has
\* it, and the info of peer 2 with the same key has made the agent of peer 2
\* its holder
C28_Witness ==
    /\ {1, 2} \subseteq DOMAIN agents
    /\ agent_state[agents[1]] = Some([peer_id |-> 1, public_key |-> <<"pk", 0>>])
    /\ agent_state[agents[2]] = Some([peer_id |-> 2, public_key |-> <<"pk", 0>>])
    /\ <<"pk", 0>> \in DOMAIN potential_validators
    /\ potential_validators[<<"pk", 0>>] = agents[2]

----------------------------------------------------------------------------
(* Properties of on_blockchain_extended at and before the macro position *)

\* the instance at position i of the set passes check_verified
PassesAt(i) == check_verified(pbft_states[i].proposal) = "true"

\* C29: on_blockchain_extended at the macro position removes every instance
\* that fails check_verified; when no instance passes, or the set is empty,
\* the set is empty afterwards and no PbftProposal event is notified.
C29_InvalidRemoved ==
    [][(OnBlockchainExtended /\ is_macro_block_at(height + 1)) =>
        /\ ~panicked'
        /\ \A i \in 1..Len(pbft_states) :
              ~PassesAt(i) => \A j \in 1..Len(pbft_states') :
                                pbft_states'[j] # pbft_states[i]
        /\ \A j \in 1..Len(pbft_states') :
              \E i \in 1..Len(pbft_states) :
                  PassesAt(i) /\ pbft_states'[j] = pbft_states[i]
        /\ (\A i \in 1..Len(pbft_states) : ~PassesAt(i)) =>
              /\ pbft_states' = <<>>
              /\ UNCHANGED <<pending, emitted, delivered>>]_vars

\* the set held the proposal of view 2, signed by a validator that does not
\* own the slot, and nothing else; on_blockchain_extended at the macro
\* position has emptied the set and no PbftProposal event was decided
C29_Witness ==
    /\ last.op = "on_blockchain_extended"
    /\ last.ret = "Ok"
    /\ last.hashes_before = <<HashOf(PropD)>>
    /\ is_macro_block_at(height + 1)
    /\ pbft_states = <<>>
    /\ pending = EmptyBag
    /\ \A h \in Hashes : emitted[<<"PbftProposal", h>>] = 0

\* C30: on_blockchain_extended while the next block is not a macro block
\* changes nothing: pbft_states keeps every buffered instance in its order,
\* also the instances that would fail check_verified, no event is decided
\* or notified, and the call returns.
C30_NoOpBeforeMacro ==
    [][(OnBlockchainExtended /\ (height + 1) % MacroInterval # 0) =>
        /\ Untouched
        /\ UNCHANGED <<height, panicked>>
        /\ ~panicked'
        /\ last'.op = "on_blockchain_extended" /\ last'.ret = "Ok"
        /\ last'.hashes_before = HashesOf(pbft_states')]_vars

\* the set holds the proposal of view 0 and, behind it, the proposal of
\* view 2 that fails check_verified; on_blockchain_extended ran while the
\* next block was not a macro block and both are still there
C30_Witness ==
    /\ last.op = "on_blockchain_extended"
    /\ (height + 1) % MacroInterval # 0
    /\ last.hashes_before = <<HashOf(PropA), HashOf(PropD)>>
    /\ HashesOf(pbft_states) = <<HashOf(PropA), HashOf(PropD)>>
    /\ \A h \in Hashes : emitted[<<"PbftProposal", h>>] = 0

----------------------------------------------------------------------------
(* Properties of completions that come late *)

\* the step hands the Complete of an aggregation whose instance has left the
\* set to its listener
LateCompletion(x) == x \in held /\ HeldComplete

\* C31: the completion of an aggregation whose block hash is no longer in
\* pbft_states decides no event, changes no state and does not panic, and
\* the completion of an aggregation that was created before on_finality
\* decides no PbftPrepareComplete or PbftComplete after it.
C31_LateCompletionSilent ==
    /\ [][\A x \in held :
            (LateCompletion(x) /\ get_pbft_state(pbft_states, x.key) = 0) =>
                /\ Untouched
                /\ ~panicked']_vars
    /\ [][\A x \in held :
            (LateCompletion(x) /\ x.before_finality) =>
                /\ \A h \in Hashes :
                      /\ emitted'[<<"PbftPrepareComplete", h>>] =
                            emitted[<<"PbftPrepareComplete", h>>]
                      /\ emitted'[<<"PbftComplete", h>>] = emitted[<<"PbftComplete", h>>]
                /\ pending' = pending]_vars

----------------------------------------------------------------------------
(* Properties of the order of the events of one epoch *)

\* C32: PbftPrepareComplete(h) and PbftComplete(h) are decided only for a
\* proposal that was announced first: whenever one of them has been decided
\* in this epoch, a PbftProposal(h) has been decided in this epoch before,
\* so none is decided for an instance that is still buffered.
C32_CompletionAfterProposal ==
    \A h \in Hashes :
        (\/ emitted[<<"PbftPrepareComplete", h>>] > 0
         \/ emitted[<<"PbftComplete", h>>] > 0)
        => emitted[<<"PbftProposal", h>>] > 0

----------------------------------------------------------------------------
(* Properties of the epoch *)

\* C33: in every reachable state, when view_changes or pbft_states is not
\* empty, validator_id is set, and every aggregation in view_changes and in
\* pbft_states was created with the current validator_id as its node_id and
\* with the active_validators the state holds now.
C33_EpochConsistency ==
    /\ (pbft_states # <<>> \/ view_changes # NoMap) => IsSome(validator_id)
    /\ \A i \in 1..Len(pbft_states) :
          /\ pbft_states[i].aggregation.node_id = Unwrap(validator_id)
          /\ pbft_states[i].aggregation.peers = active_validators
    /\ \A vc \in DOMAIN view_changes :
          /\ view_changes[vc].node_id = Unwrap(validator_id)
          /\ view_changes[vc].peers = active_validators

\* in an epoch in which the node has the index 2 and one active validator
\* is known, the node holds a view change and an instance, both created
\* with that index and that table of active validators
C33_Witness ==
    /\ validator_id = Some(2)
    /\ pbft_states # <<>>
    /\ pbft_states[1].aggregation.node_id = 2
    /\ view_changes # NoMap
    /\ DOMAIN active_validators = {0}
    /\ pbft_states[1].aggregation.peers = active_validators
    /\ \A vc \in DOMAIN view_changes : view_changes[vc].peers = active_validators

----------------------------------------------------------------------------
(* Properties of proposals that arrive between the chain's extension and    *)
(* on_blockchain_extended                                                   *)

\* C34: a proposal that passes check_verified is not lost to an instance
\* that does not: when on_blockchain_extended runs at the macro position
\* right after a valid proposal was answered with Ok or ProposalCollision,
\* it does not leave the set empty.
C34_ValidNotLost ==
    [][(/\ OnBlockchainExtended
        /\ is_macro_block_at(height + 1)
        /\ last.op = "on_pbft_proposal"
        /\ last.ret \in {"Ok", "ProposalCollision"}
        /\ check_verified(last.arg) = "true")
       => pbft_states' # <<>>]_vars

\* C35: between two finalities PbftProposal(h) is decided at most once for
\* every block hash h, as the strictly increasing view numbers of the
\* PbftProposal events of an epoch require.
C35_ProposalEventOnce ==
    \A h \in Hashes : emitted[<<"PbftProposal", h>>] <= 1

----------------------------------------------------------------------------
(* Properties of the relay *)

\* C36: within one epoch, with a chain that only grows, the node sends a
\* proposal to its peers at most once: a call of on_pbft_proposal that takes
\* the proposal into the set, and so relays it, is not for a proposal that
\* was sent to a peer before.
C36_BroadcastOnce ==
    [][\A p \in RelayedProposals :
        (/\ OnPbftProposal(p)
         /\ potential_validators # NoMap
         /\ Holds(HashOf(p)) = 0
         /\ get_pbft_state(pbft_states', HashOf(p)) # 0)
        => \A m \in sent : p \notin m[2].proposal]_vars

----------------------------------------------------------------------------
(* Properties of the locks at a push *)

\* the step pushes into the prepare or commit aggregation of an instance
PbftPush ==
    \E h \in BufferedHashes :
        /\ Holds(h) # 0
        /\ \/ \E i \in NodeIds : PushPrepare(h, i) \/ PushCommit(h, i)
           \/ \E s \in PushedSigners :
                 OnPbftPrepareLevelUpdate(h, s) \/ OnPbftCommitLevelUpdate(h, s)

\* the step pushes into a view-change aggregation, new or held
ViewChangePush ==
    \E vc \in PushedViewChanges :
        \/ /\ vc \notin DOMAIN view_changes
           /\ vc \in DOMAIN view_changes'
           /\ \E i \in NodeIds : StartViewChange([message |-> vc, signer_idx |-> i])
        \/ /\ vc \in DOMAIN view_changes
           /\ \E s \in PushedSigners : OnViewChangeLevelUpdate(vc, s)

\* C37: at every push into an aggregation, the completion listener of that
\* aggregation, were it called inside the push, asks for no coordinator
\* state lock while the pushing thread holds a guard of it.
C37_NoReentrantLock ==
    [][/\ PbftPush => ~deadlocks(lock_at_push', listener_lock("PbftPrepare"))
       /\ PbftPush => ~deadlocks(lock_at_push', listener_lock("PbftCommit"))
       /\ ViewChangePush => ~deadlocks(lock_at_push', listener_lock("ViewChange"))]_vars

\* a level update pushed under the read guard has completed the view change
\* this node started, and its listener has a completion to notify
C37_Witness ==
    /\ lock_at_push = "read"
    /\ \E vc \in DOMAIN view_changes :
          /\ view_changes[vc].due > 0
          /\ view_changes[vc].signers = {0, 1, 2}

====
